---- MODULE Spec2Model ----
(***************************************************************************)
(* Model of libblastrampoline's ABI autodetection (src/src/autodetection.c) *)
(*                                                                         *)
(* A loaded library is the set of names its dynamic symbol table exports.  *)
(* The foreign routines (isamax, dpotrf, sdot) are opaque: what they       *)
(* return or store is drawn from small sets of raw bit patterns each time  *)
(* they are called.                                                        *)
(*                                                                         *)
(* Fixed-width storage: TLC's integers are 32 bits wide, so a 64-bit word  *)
(* is a tuple of four 16-bit limbs and a 32-bit word a tuple of two, least *)
(* significant limb first (the little-endian layout the probes rely on).   *)
(***************************************************************************)
EXTENDS Integers, Sequences, FiniteSets, TLC

VARIABLES
    handle,         \* the loaded library: the set of symbol names it exports
    deepbindless,   \* TRUE in a build compiled with LBT_DEEPBINDLESS
    lsame32_addr,   \* forwarding slot of lsame_ (LP64 table)
    lsame64_addr,   \* forwarding slot of lsame_ (ILP64 table)
    old_lsame32,    \* value saved by push_fake_lsame
    old_lsame64,
    detected,       \* result of the latest autodetect_symbol_suffix call
    last            \* record of the latest call into the detection core

vars == <<handle, deepbindless, lsame32_addr, lsame64_addr,
          old_lsame32, old_lsame64, detected, last>>

-----------------------------------------------------------------------------
(* Bounds of the model *)

\* largest number of names a modelled library exports
MaxExports == 2

-----------------------------------------------------------------------------
(* Tokens *)

NULL == "(null)"
UNSET == "(unset)"
FAKE_LSAME == "&fake_lsame"
PREV_LSAME == "&lsame_@previous"

LBT_INTERFACE_LP64 == "LBT_INTERFACE_LP64"
LBT_INTERFACE_ILP64 == "LBT_INTERFACE_ILP64"
LBT_INTERFACE_UNKNOWN == "LBT_INTERFACE_UNKNOWN"

LBT_F2C_PLAIN == "LBT_F2C_PLAIN"
LBT_F2C_REQUIRED == "LBT_F2C_REQUIRED"
LBT_F2C_UNKNOWN == "LBT_F2C_UNKNOWN"
\* autodetect_f2c returns the literal 0 when sdot is absent
F2C_LITERAL_ZERO == "0"

-----------------------------------------------------------------------------
(* Fixed-width words *)

RECURSIVE Word(_, _)
\* the two's-complement encoding of integer v in n 16-bit limbs
Word(v, n) ==
    IF n = 0 THEN <<>>
    ELSE <<v % 65536>> \o Word((v - (v % 65536)) \div 65536, n - 1)

\* a 64-bit literal written as four hexadecimal groups, most significant first
Hex64(a, b, c, d) == <<d, c, b, a>>

Int64(v) == Word(v, 4)

-----------------------------------------------------------------------------
(* Symbol resolution *)

sprintf(a, b) == a \o b

AddrOf(name) == "&" \o name

lookup_symbol(lib, name) == IF name \in lib THEN AddrOf(name) ELSE NULL

-----------------------------------------------------------------------------
(* autodetect_symbol_suffix *)

\* mutant: the stems without the trailing underscore of the FORTRAN names
symbol_names_bare == <<"isamax", "dpotrf">>

symbol_names == <<"isamax_", "dpotrf_">>

\* mutant: the ILP64-style suffixes tried before the plain ones
suffixes_ilp64_first == <<"64_", "_64__", "__64___", "", "_", "__">>

suffixes == <<"", "_", "__", "64_", "_64__", "__64___">>

RECURSIVE suffix_scan_short(_, _, _, _)
\* mutant: the inner loop stops one suffix early
suffix_scan_short(lib, symbol_idx, suffix_idx, trace) ==
    IF symbol_idx > Len(symbol_names)
    THEN [found |-> FALSE, symbol_idx |-> 0, suffix_idx |-> 0, trace |-> trace]
    ELSE IF suffix_idx >= Len(suffixes)
    THEN suffix_scan_short(lib, symbol_idx + 1, 1, trace)
    ELSE LET symbol_name == sprintf(symbol_names[symbol_idx], suffixes[suffix_idx])
             seen == Append(trace, symbol_name)
         IN  IF lookup_symbol(lib, symbol_name) # NULL
             THEN [found |-> TRUE, symbol_idx |-> symbol_idx,
                   suffix_idx |-> suffix_idx, trace |-> seen]
             ELSE suffix_scan_short(lib, symbol_idx, suffix_idx + 1, seen)

RECURSIVE suffix_scan(_, _, _, _)
\* the nested loops: stems outermost, suffixes innermost; trace collects the
\* names handed to lookup_symbol
suffix_scan(lib, symbol_idx, suffix_idx, trace) ==
    IF symbol_idx > Len(symbol_names)
    THEN [found |-> FALSE, symbol_idx |-> 0, suffix_idx |-> 0, trace |-> trace]
    ELSE IF suffix_idx > Len(suffixes)
    THEN suffix_scan(lib, symbol_idx + 1, 1, trace)
    ELSE LET symbol_name == sprintf(symbol_names[symbol_idx], suffixes[suffix_idx])
             seen == Append(trace, symbol_name)
         IN  IF lookup_symbol(lib, symbol_name) # NULL
             THEN [found |-> TRUE, symbol_idx |-> symbol_idx,
                   suffix_idx |-> suffix_idx, trace |-> seen]
             ELSE suffix_scan(lib, symbol_idx, suffix_idx + 1, seen)

\* mutant: the empty suffix instead of NULL when nothing resolves
autodetect_symbol_suffix_default(lib) ==
    LET r == suffix_scan(lib, 1, 1, <<>>)
    IN  IF r.found THEN suffixes[r.suffix_idx] ELSE ""

autodetect_symbol_suffix(lib) ==
    LET r == suffix_scan(lib, 1, 1, <<>>)
    IN  IF r.found THEN suffixes[r.suffix_idx] ELSE NULL

-----------------------------------------------------------------------------
(* The lsame_ override used by LBT_DEEPBINDLESS builds *)

LsameState == [lsame32 |-> lsame32_addr, lsame64 |-> lsame64_addr,
               old32 |-> old_lsame32, old64 |-> old_lsame64]

\* save both forwarding slots of lsame_ and point them at fake_lsame
push_fake_lsame(st) ==
    [lsame32 |-> FAKE_LSAME, lsame64 |-> FAKE_LSAME,
     old32 |-> st.lsame32, old64 |-> st.lsame64]

\* put the saved addresses back and clear the save slots
pop_fake_lsame(st) ==
    [lsame32 |-> st.old32, lsame64 |-> st.old64, old32 |-> NULL, old64 |-> NULL]

\* one step of a handler as seen from outside: what was done, to what, with
\* which arguments, and the lsame_ slots in force while it was done
Event(ev, arg, args, st) ==
    [ev |-> ev, arg |-> arg, args |-> args,
     lsame32 |-> st.lsame32, lsame64 |-> st.lsame64]

-----------------------------------------------------------------------------
(* autodetect_blas_interface *)

\* int64_t n = 0xffffffff00000003
BlasN == Hex64(65535, 65535, 0, 3)

BlasX == <<"1.0f", "2.0f", "1.0f">>

\* mutant: max_idx read as a 32-bit int
autodetect_blas_interface_low32(isamax_addr, max_idx, st0) ==
    LET st1 == IF deepbindless THEN push_fake_lsame(st0) ELSE st0
        st2 == IF deepbindless THEN pop_fake_lsame(st1) ELSE st1
        pushed == IF deepbindless THEN <<Event("push", "lsame_", <<>>, st1)>> ELSE <<>>
        popped == IF deepbindless THEN <<Event("pop", "lsame_", <<>>, st2)>> ELSE <<>>
    IN  [ret |-> IF SubSeq(max_idx, 1, 2) = Word(0, 2) THEN LBT_INTERFACE_ILP64
                 ELSE IF SubSeq(max_idx, 1, 2) = Word(2, 2) THEN LBT_INTERFACE_LP64
                 ELSE LBT_INTERFACE_UNKNOWN,
         trace |-> pushed
                   \o <<Event("call", isamax_addr, <<BlasN, BlasX, Int64(1)>>, st1)>>
                   \o popped,
         obs |-> max_idx,
         st |-> st2]

\* mutant: fake_lsame is pushed and never popped
autodetect_blas_interface_nopop(isamax_addr, max_idx, st0) ==
    LET st1 == IF deepbindless THEN push_fake_lsame(st0) ELSE st0
        pushed == IF deepbindless THEN <<Event("push", "lsame_", <<>>, st1)>> ELSE <<>>
    IN  [ret |-> IF max_idx = Int64(0) THEN LBT_INTERFACE_ILP64
                 ELSE IF max_idx = Int64(2) THEN LBT_INTERFACE_LP64
                 ELSE LBT_INTERFACE_UNKNOWN,
         trace |-> pushed
                   \o <<Event("call", isamax_addr, <<BlasN, BlasX, Int64(1)>>, st1)>>,
         obs |-> max_idx,
         st |-> st1]

\* isamax_addr is called once and answers max_idx (the 64-bit return register)
autodetect_blas_interface(isamax_addr, max_idx, st0) ==
    LET n == BlasN
        incx == Int64(1)
        st1 == IF deepbindless THEN push_fake_lsame(st0) ELSE st0
        st2 == IF deepbindless THEN pop_fake_lsame(st1) ELSE st1
        pushed == IF deepbindless THEN <<Event("push", "lsame_", <<>>, st1)>> ELSE <<>>
        popped == IF deepbindless THEN <<Event("pop", "lsame_", <<>>, st2)>> ELSE <<>>
    IN  [ret |-> IF max_idx = Int64(0) THEN LBT_INTERFACE_ILP64
                 ELSE IF max_idx = Int64(2) THEN LBT_INTERFACE_LP64
                 ELSE LBT_INTERFACE_UNKNOWN,
         trace |-> pushed \o <<Event("call", isamax_addr, <<n, BlasX, incx>>, st1)>>
                   \o popped,
         obs |-> max_idx,
         st |-> st2]

-----------------------------------------------------------------------------
(* autodetect_lapack_interface *)

\* what a foreign dpotrf does to the 8-byte info slot: a store of `bits`
\* (width/16 limbs) over its low `width` bits; width 0 leaves it untouched
StoreInfo(info, store) ==
    IF store.width = 64 THEN store.bits
    ELSE IF store.width = 32 THEN store.bits \o SubSeq(info, 3, 4)
    ELSE info

\* mutant: info is not zeroed before the call
autodetect_lapack_interface_uninit(dpotrf_addr, store, st0) ==
    LET info0 == Int64(-1)
        info == StoreInfo(info0, store)
    IN  [ret |-> IF info = Hex64(65535, 65535, 65535, 65532) THEN LBT_INTERFACE_ILP64
                 ELSE IF info = Hex64(0, 0, 65535, 65532) THEN LBT_INTERFACE_LP64
                 ELSE LBT_INTERFACE_UNKNOWN,
         trace |-> <<Event("call", dpotrf_addr, <<"U", Int64(2), Int64(0), info0>>, st0)>>,
         obs |-> info,
         st |-> st0]

autodetect_lapack_interface(dpotrf_addr, store, st0) ==
    LET uplo == "U"
        m == Int64(2)
        lda == Int64(0)
        info0 == Int64(0)
        info == StoreInfo(info0, store)
    IN  [ret |-> IF info = Hex64(65535, 65535, 65535, 65532) THEN LBT_INTERFACE_ILP64
                 ELSE IF info = Hex64(0, 0, 65535, 65532) THEN LBT_INTERFACE_LP64
                 ELSE LBT_INTERFACE_UNKNOWN,
         trace |-> <<Event("call", dpotrf_addr, <<uplo, m, lda, info0>>, st0)>>,
         obs |-> info,
         st |-> st0]

-----------------------------------------------------------------------------
(* autodetect_interface *)

\* mutant: an UNKNOWN from the BLAS sub-test falls through to the LAPACK one
autodetect_interface_fallthrough(lib, suffix, max_idx, store, st0) ==
    LET isamax_name == sprintf("isamax_", suffix)
        isamax == lookup_symbol(lib, isamax_name)
        dpotrf_name == sprintf("dpotrf_", suffix)
        dpotrf == lookup_symbol(lib, dpotrf_name)
        look1 == <<Event("lookup", isamax_name, <<>>, st0)>>
        look2 == <<Event("lookup", dpotrf_name, <<>>, st0)>>
        b == autodetect_blas_interface(isamax, max_idx, st0)
        l == autodetect_lapack_interface(dpotrf, store, st0)
    IN  IF isamax # NULL /\ b.ret # LBT_INTERFACE_UNKNOWN
        THEN [b EXCEPT !.trace = look1 \o b.trace]
        ELSE IF dpotrf # NULL
        THEN [l EXCEPT !.trace = look1
                                 \o (IF isamax # NULL THEN b.trace ELSE <<>>)
                                 \o look2 \o l.trace]
        ELSE [ret |-> LBT_INTERFACE_UNKNOWN,
              trace |-> look1 \o (IF isamax # NULL THEN b.trace ELSE <<>>) \o look2,
              obs |-> <<>>, st |-> st0]

\* mutant: the LAPACK sub-test is attempted before the BLAS one
autodetect_interface_dpotrf_first(lib, suffix, max_idx, store, st0) ==
    LET isamax_name == sprintf("isamax_", suffix)
        isamax == lookup_symbol(lib, isamax_name)
        dpotrf_name == sprintf("dpotrf_", suffix)
        dpotrf == lookup_symbol(lib, dpotrf_name)
        look1 == <<Event("lookup", isamax_name, <<>>, st0)>>
        look2 == <<Event("lookup", dpotrf_name, <<>>, st0)>>
    IN  IF dpotrf # NULL
        THEN LET r == autodetect_lapack_interface(dpotrf, store, st0)
             IN  [r EXCEPT !.trace = look2 \o r.trace]
        ELSE IF isamax # NULL
        THEN LET r == autodetect_blas_interface(isamax, max_idx, st0)
             IN  [r EXCEPT !.trace = look2 \o look1 \o r.trace]
        ELSE [ret |-> LBT_INTERFACE_UNKNOWN, trace |-> look2 \o look1,
              obs |-> <<>>, st |-> st0]

\* max_idx and store are what the foreign routine would answer if called
autodetect_interface(lib, suffix, max_idx, store, st0) ==
    LET isamax_name == sprintf("isamax_", suffix)
        isamax == lookup_symbol(lib, isamax_name)
        dpotrf_name == sprintf("dpotrf_", suffix)
        dpotrf == lookup_symbol(lib, dpotrf_name)
        look1 == <<Event("lookup", isamax_name, <<>>, st0)>>
        look2 == <<Event("lookup", dpotrf_name, <<>>, st0)>>
    IN  IF isamax # NULL
        THEN LET r == autodetect_blas_interface(isamax, max_idx, st0)
             IN  [r EXCEPT !.trace = look1 \o r.trace]
        ELSE IF dpotrf # NULL
        THEN LET r == autodetect_lapack_interface(dpotrf, store, st0)
             IN  [r EXCEPT !.trace = look1 \o look2 \o r.trace]
        ELSE [ret |-> LBT_INTERFACE_UNKNOWN, trace |-> look1 \o look2,
              obs |-> <<>>, st |-> st0]

-----------------------------------------------------------------------------
(* autodetect_f2c (builds with F2C_AUTODETECTION) *)

\* IEEE-754 single precision from sign, biased exponent and fraction
PackFloat(sign, exp, frac) ==
    LET v == exp * 8388608 + frac
    IN  <<v % 65536, sign * 32768 + v \div 65536>>

\* the conversion `float f2c = <double>`: IEEE-754 double to single,
\* round to nearest, ties to even
double_to_float(d) ==
    LET sign == d[4] \div 32768
        exp == (d[4] % 32768) \div 16
        \* the 23 fraction bits that are kept and the 29 that are dropped
        top == (d[4] % 16) * 524288 + d[3] * 8 + d[2] \div 8192
        rest == (d[2] % 8192) * 65536 + d[1]
        e == exp - 1023 + 127
        shift == 1 - e
        sig == 8388608 + top
        q == sig \div (2 ^ shift)
        rem == sig % (2 ^ shift)
        half == 2 ^ (shift - 1)
    IN  IF exp = 2047
        THEN IF top = 0 /\ rest = 0
             THEN PackFloat(sign, 255, 0)
             ELSE PackFloat(sign, 255, IF top >= 4194304 THEN top ELSE top + 4194304)
        ELSE IF exp = 0 THEN PackFloat(sign, 0, 0)
        ELSE IF e >= 255 THEN PackFloat(sign, 255, 0)
        ELSE IF e >= 1
        THEN LET up == IF rest > 268435456 \/ (rest = 268435456 /\ top % 2 = 1)
                       THEN 1 ELSE 0
             IN  IF e = 254 /\ top + up = 8388608
                 THEN PackFloat(sign, 255, 0)
                 ELSE PackFloat(sign, e, top + up)
        ELSE IF shift > 24 THEN PackFloat(sign, 0, 0)
        ELSE LET up == IF rem > half \/ (rem = half /\ (rest > 0 \/ q % 2 = 1))
                       THEN 1 ELSE 0
             IN  PackFloat(sign, 0, q + up)

\* the comparison `x == 0.25` for a float x: x is widened exactly, so it holds
\* for the one encoding of +2^-2
float_eq_quarter(f) ==
    LET sign == f[2] \div 32768
        exp == (f[2] % 32768) \div 128
        frac == (f[2] % 128) * 65536 + f[1]
    IN  sign = 0 /\ exp = 125 /\ frac = 0

\* ret1 and ret2 are the low 64 bits of the return register after the call
\* through sdot_plain and the call through sdot_f2c
autodetect_f2c(lib, suffix, ret1, ret2, st0) ==
    LET symbol_name == sprintf("sdot_", suffix)
        sdot_addr == lookup_symbol(lib, symbol_name)
        look == <<Event("lookup", symbol_name, <<>>, st0)>>
        n == Int64(1)
        inca == Int64(1)
        incb == Int64(1)
        call == Event("call", sdot_addr, <<n, <<"0.5f">>, inca, <<"0.5f">>, incb>>, st0)
        plain == SubSeq(ret1, 1, 2)
        f2c == double_to_float(ret2)
    IN  IF sdot_addr = NULL
        THEN [ret |-> F2C_LITERAL_ZERO, trace |-> look, obs |-> <<>>, st |-> st0]
        ELSE [ret |-> IF float_eq_quarter(plain) THEN LBT_F2C_PLAIN
                      ELSE IF float_eq_quarter(f2c) THEN LBT_F2C_REQUIRED
                      ELSE LBT_F2C_UNKNOWN,
              trace |-> look \o <<call, call>>,
              obs |-> <<ret1, ret2>>,
              st |-> st0]

-----------------------------------------------------------------------------
(* The modelled world *)

SuffixSet == {suffixes[i] : i \in 1..Len(suffixes)}

ProbeNames ==
    {sprintf(symbol_names[i], suffixes[j]) :
        i \in 1..Len(symbol_names), j \in 1..Len(suffixes)}

\* names a modelled library may export: every probe name, some sdot names,
\* and names the detector never asks for
Universe == ProbeNames \cup {"sdot_", "isamax"}

Libraries == {S \in SUBSET Universe : Cardinality(S) <= MaxExports}

\* raw 64-bit values a foreign isamax may leave in the return register
IsamaxReturns ==
    { Int64(0), Int64(1), Int64(2), Int64(3), Int64(-1),
      Hex64(0, 1, 0, 2),            \* low half 2, high half not zero
      Hex64(65535, 65535, 0, 0) }   \* low half 0, high half not zero

NoStore == [width |-> 0, bits |-> <<>>]

\* stores a foreign dpotrf may make into info
DpotrfStores ==
    { NoStore,
      [width |-> 64, bits |-> Word(-4, 4)],
      [width |-> 32, bits |-> Word(-4, 2)],
      [width |-> 64, bits |-> Word(0, 4)],
      [width |-> 64, bits |-> Word(-2, 4)],
      [width |-> 32, bits |-> Word(-2, 2)],
      [width |-> 64, bits |-> Hex64(0, 0, 65535, 65532)],
      [width |-> 64, bits |-> Hex64(65535, 65535, 0, 4)] }

\* raw 64-bit values a foreign sdot may leave in the floating return register
SdotReturns ==
    { Hex64(0, 0, 16000, 0),          \* single 0.25, upper half zero
      Hex64(4660, 48879, 16000, 0),   \* single 0.25, upper half not zero
      Hex64(16336, 0, 0, 0),          \* double 0.25
      Hex64(16336, 0, 256, 0),        \* double 0.25 + 2^-30
      Hex64(16336, 0, 4096, 1),       \* double 0.25 + 2^-26 + 2^-54
      Hex64(0, 0, 0, 0) }             \* zero

\* suffix arguments handed to the probes
SuffixArgs == SuffixSet \cup {"x"}

Init ==
    /\ handle \in Libraries
    /\ deepbindless \in BOOLEAN
    /\ lsame32_addr \in (IF deepbindless THEN {NULL, PREV_LSAME} ELSE {PREV_LSAME})
    /\ lsame64_addr = lsame32_addr
    /\ old_lsame32 = NULL
    /\ old_lsame64 = NULL
    /\ detected = UNSET
    /\ last = [op |-> "none", suffix |-> "", ret |-> "", trace |-> <<>>, obs |-> <<>>]

DetectSuffix ==
    LET r == suffix_scan(handle, 1, 1, <<>>)
        ret == autodetect_symbol_suffix(handle)
    IN  /\ detected' = ret
        /\ last' = [op |-> "suffix", suffix |-> "", ret |-> ret,
                    trace |-> [i \in 1..Len(r.trace) |->
                                Event("lookup", r.trace[i], <<>>, LsameState)],
                    obs |-> <<r.symbol_idx>>]
        /\ UNCHANGED <<handle, deepbindless, lsame32_addr, lsame64_addr,
                       old_lsame32, old_lsame64>>

\* a routine that does not resolve is never called and answers nothing
IsamaxAnswers(suffix) ==
    IF lookup_symbol(handle, sprintf("isamax_", suffix)) # NULL
    THEN IsamaxReturns ELSE {Int64(0)}

DpotrfAnswers(suffix) ==
    IF /\ lookup_symbol(handle, sprintf("isamax_", suffix)) = NULL
       /\ lookup_symbol(handle, sprintf("dpotrf_", suffix)) # NULL
    THEN DpotrfStores ELSE {NoStore}

\* the probes run once suffix detection has run (it runs first, at load time);
\* the suffix they are given is any string of SuffixArgs
DetectInterface(suffix) ==
    /\ detected # UNSET
    /\ \E max_idx \in IsamaxAnswers(suffix), store \in DpotrfAnswers(suffix) :
        LET r == autodetect_interface(handle, suffix, max_idx, store, LsameState)
        IN  /\ last' = [op |-> "interface", suffix |-> suffix, ret |-> r.ret,
                        trace |-> r.trace, obs |-> r.obs]
            /\ lsame32_addr' = r.st.lsame32
            /\ lsame64_addr' = r.st.lsame64
            /\ old_lsame32' = r.st.old32
            /\ old_lsame64' = r.st.old64
            /\ UNCHANGED <<handle, deepbindless, detected>>

SdotAnswers(suffix) ==
    IF lookup_symbol(handle, sprintf("sdot_", suffix)) # NULL
    THEN SdotReturns ELSE {Int64(0)}

DetectF2C(suffix) ==
    /\ detected # UNSET
    /\ \E ret1 \in SdotAnswers(suffix), ret2 \in SdotAnswers(suffix) :
        LET r == autodetect_f2c(handle, suffix, ret1, ret2, LsameState)
        IN  /\ last' = [op |-> "f2c", suffix |-> suffix, ret |-> r.ret,
                        trace |-> r.trace, obs |-> r.obs]
            /\ UNCHANGED <<handle, deepbindless, lsame32_addr, lsame64_addr,
                           old_lsame32, old_lsame64, detected>>

Next ==
    \/ DetectSuffix
    \/ \E suffix \in SuffixArgs : DetectInterface(suffix)
    \/ \E suffix \in SuffixArgs : DetectF2C(suffix)

Spec == Init /\ [][Next]_vars

-----------------------------------------------------------------------------
(* Vocabulary of the properties, written out independently of the model's  *)
(* tables                                                                  *)

NonIlp64Suffixes == {"", "_", "__"}
Ilp64Suffixes == {"64_", "_64__", "__64___"}
CandidateSuffixes == NonIlp64Suffixes \cup Ilp64Suffixes
ProbeStems == {"isamax_", "dpotrf_"}
TwelveNames == {stem \o s : stem \in ProbeStems, s \in CandidateSuffixes}

Resolves(stem, sfxs) == \E s \in sfxs : (stem \o s) \in handle

IsProbeStep(e) == e.ev \in {"lookup", "call"}
IsCall(e) == e.ev = "call"
IsPush(e) == e.ev = "push"
IsPop(e) == e.ev = "pop"

\* the lookups and foreign calls of a trace, in order, as <<kind, target>>
Steps(trace) ==
    LET p == SelectSeq(trace, IsProbeStep)
    IN  [i \in 1..Len(p) |-> <<p[i].ev, p[i].arg>>]

Calls(trace) == SelectSeq(trace, IsCall)

AfterSuffix == last.op = "suffix"
AfterInterface == last.op = "interface"
AfterF2C == last.op = "f2c"

\* the latest call ran the BLAS sub-test / the LAPACK sub-test
RanBlas ==
    /\ AfterInterface
    /\ Len(Calls(last.trace)) = 1
    /\ Calls(last.trace)[1].arg = "&isamax_" \o last.suffix
RanLapack ==
    /\ AfterInterface
    /\ Len(Calls(last.trace)) = 1
    /\ Calls(last.trace)[1].arg = "&dpotrf_" \o last.suffix

-----------------------------------------------------------------------------
(* C1 *)

\* C1: when the only probe name a library exports is isamax_ followed by a
\* candidate suffix s, autodetect_symbol_suffix returns s.
C1_SingleIsamax ==
    \A s \in CandidateSuffixes :
        (AfterSuffix /\ handle \cap TwelveNames = {"isamax_" \o s})
            => last.ret = s

C1_Witness ==
    /\ AfterSuffix
    /\ handle \cap TwelveNames = {"isamax___64___"}
    /\ handle # {"isamax___64___"}
    /\ last.ret = "__64___"

\* C2: autodetect_symbol_suffix returns NULL exactly when none of the twelve
\* stem+suffix names resolves; a returned suffix is a candidate under which
\* some probe stem resolves.
C2_FailureIffNoProbe ==
    AfterSuffix =>
        /\ (last.ret = NULL <=> handle \cap TwelveNames = {})
        /\ (last.ret # NULL =>
                /\ last.ret \in CandidateSuffixes
                /\ \E stem \in ProbeStems : (stem \o last.ret) \in handle)

C2_Witness ==
    /\ AfterSuffix
    /\ last.ret = NULL
    /\ handle = {"isamax", "sdot_"}
    /\ Len(last.trace) = 12

BothConventions ==
    /\ \E stem \in ProbeStems : Resolves(stem, NonIlp64Suffixes)
    /\ \E stem \in ProbeStems : Resolves(stem, Ilp64Suffixes)

\* C3 as stated: a library exporting probe names under both conventions is
\* always given a non-ILP64 suffix.
C3_Original ==
    (AfterSuffix /\ BothConventions) => last.ret \in NonIlp64Suffixes

\* C3 amended: with both conventions exported, the suffix is non-ILP64 when
\* isamax resolves under a non-ILP64 suffix or under no candidate at all; when
\* isamax resolves only under ILP64-style suffixes the suffix is ILP64-style,
\* even though dpotrf resolves under a non-ILP64 one.
C3_Amended ==
    (AfterSuffix /\ BothConventions) =>
        IF Resolves("isamax_", NonIlp64Suffixes) \/ ~Resolves("isamax_", Ilp64Suffixes)
        THEN last.ret \in NonIlp64Suffixes
        ELSE last.ret \in Ilp64Suffixes /\ ("isamax_" \o last.ret) \in handle

C3_Witness ==
    /\ AfterSuffix
    /\ handle = {"isamax_64_", "dpotrf_"}
    /\ BothConventions
    /\ last.ret = "64_"

\* C4: autodetect_interface looks isamax up first; if it resolves it is the
\* only routine called and dpotrf is not even looked up; otherwise dpotrf is
\* looked up and, if it resolves, is the only routine called; if neither
\* resolves nothing is called and the result is UNKNOWN.
C4_ProbeOrder ==
    AfterInterface =>
        LET isamax_name == "isamax_" \o last.suffix
            dpotrf_name == "dpotrf_" \o last.suffix
        IN  IF isamax_name \in handle
            THEN Steps(last.trace) =
                    << <<"lookup", isamax_name>>, <<"call", "&" \o isamax_name>> >>
            ELSE IF dpotrf_name \in handle
            THEN Steps(last.trace) =
                    << <<"lookup", isamax_name>>, <<"lookup", dpotrf_name>>,
                       <<"call", "&" \o dpotrf_name>> >>
            ELSE /\ Steps(last.trace) =
                        << <<"lookup", isamax_name>>, <<"lookup", dpotrf_name>> >>
                 /\ last.ret = "LBT_INTERFACE_UNKNOWN"

C4_Witness ==
    /\ AfterInterface
    /\ ("isamax_" \o last.suffix) \in handle
    /\ ("dpotrf_" \o last.suffix) \in handle
    /\ last.ret = "LBT_INTERFACE_UNKNOWN"
    /\ Len(Calls(last.trace)) = 1

\* C5: the BLAS sub-test calls isamax with n = 0xFFFFFFFF00000003 over
\* {1.0, 2.0, 1.0} and stride 1, and classifies on the 64-bit value returned:
\* 0 is ILP64, 2 is LP64, anything else UNKNOWN.
C5_BlasClassification ==
    RanBlas =>
        /\ Calls(last.trace)[1].args =
                << <<3, 0, 65535, 65535>>, <<"1.0f", "2.0f", "1.0f">>, <<1, 0, 0, 0>> >>
        /\ (last.ret = "LBT_INTERFACE_ILP64" <=> last.obs = <<0, 0, 0, 0>>)
        /\ (last.ret = "LBT_INTERFACE_LP64" <=> last.obs = <<2, 0, 0, 0>>)
        /\ last.ret \in {"LBT_INTERFACE_ILP64", "LBT_INTERFACE_LP64",
                         "LBT_INTERFACE_UNKNOWN"}

C5_Witness ==
    /\ RanBlas
    /\ last.obs = <<2, 0, 1, 0>>
    /\ last.ret = "LBT_INTERFACE_UNKNOWN"

\* C6: the LAPACK sub-test calls dpotrf with uplo 'U', order 2, lda 0 and a
\* zeroed info slot, and classifies on the slot's 64 bits afterwards:
\* 0xFFFFFFFFFFFFFFFC is ILP64, 0x00000000FFFFFFFC is LP64, anything else
\* (an untouched slot included) UNKNOWN.
C6_LapackClassification ==
    RanLapack =>
        /\ Calls(last.trace)[1].args =
                <<"U", <<2, 0, 0, 0>>, <<0, 0, 0, 0>>, <<0, 0, 0, 0>> >>
        /\ (last.ret = "LBT_INTERFACE_ILP64" <=> last.obs = <<65532, 65535, 65535, 65535>>)
        /\ (last.ret = "LBT_INTERFACE_LP64" <=> last.obs = <<65532, 65535, 0, 0>>)
        /\ last.ret \in {"LBT_INTERFACE_ILP64", "LBT_INTERFACE_LP64",
                         "LBT_INTERFACE_UNKNOWN"}

C6_Witness ==
    /\ RanLapack
    /\ last.obs = <<65532, 65535, 0, 0>>
    /\ last.ret = "LBT_INTERFACE_LP64"

\* the library of the end-to-end scenario: dpotrf_ is its only probe name, and
\* interface detection was run with the detected suffix against a dpotrf that
\* stores a 64-bit -4
OnlyDpotrfUnderscore64 ==
    /\ handle \cap TwelveNames = {"dpotrf_"}
    /\ AfterInterface
    /\ last.suffix = detected
    /\ (Len(Calls(last.trace)) > 0 => last.obs = <<65532, 65535, 65535, 65535>>)

\* C7 as stated: for a library whose only probe name is dpotrf_ and whose
\* dpotrf stores 64-bit info, the detected suffix is "_" and the interface
\* detected with it is ILP64.
C7_Original ==
    OnlyDpotrfUnderscore64 =>
        detected = "_" /\ last.ret = "LBT_INTERFACE_ILP64"

\* C7 amended: for that library the detected suffix is the empty string (the
\* trailing underscore belongs to the stem) and the interface detected with
\* it, through dpotrf_, is ILP64.
C7_Amended ==
    OnlyDpotrfUnderscore64 =>
        /\ detected = ""
        /\ RanLapack
        /\ Calls(last.trace)[1].arg = "&dpotrf_"
        /\ last.ret = "LBT_INTERFACE_ILP64"

C7_Witness ==
    /\ OnlyDpotrfUnderscore64
    /\ handle = {"dpotrf_", "isamax"}
    /\ last.ret = "LBT_INTERFACE_ILP64"

Overridden(e) == e.lsame32 = "&fake_lsame" \/ e.lsame64 = "&fake_lsame"

\* C8: in an LBT_DEEPBINDLESS build every BLAS probe is lookup, push, the one
\* isamax call, pop, in that order; fake_lsame is in force for the isamax call
\* and for no lookup or other foreign call; no other handler pushes or pops;
\* and when the handler has returned both lsame_ slots hold what they held
\* when it was entered.
C8_ScopedOverride ==
    (deepbindless /\ last.op # "none") =>
        /\ RanBlas =>
            /\ Len(last.trace) = 4
            /\ last.trace[1].ev = "lookup"
            /\ last.trace[2].ev = "push"
            /\ last.trace[3].ev = "call"
            /\ last.trace[4].ev = "pop"
            /\ Overridden(last.trace[3])
        /\ ~RanBlas =>
            /\ SelectSeq(last.trace, IsPush) = <<>>
            /\ SelectSeq(last.trace, IsPop) = <<>>
        /\ \A i \in 1..Len(last.trace) :
            (last.trace[i].ev \in {"lookup", "call"} /\ Overridden(last.trace[i]))
                => (RanBlas /\ i = 3)
        /\ Len(SelectSeq(last.trace, IsPush)) = Len(SelectSeq(last.trace, IsPop))
        /\ lsame32_addr = last.trace[1].lsame32
        /\ lsame64_addr = last.trace[1].lsame64
        /\ lsame32_addr # "&fake_lsame"
        /\ lsame64_addr # "&fake_lsame"

C8_Witness ==
    /\ deepbindless
    /\ RanBlas
    /\ last.ret = "LBT_INTERFACE_UNKNOWN"
    /\ Overridden(last.trace[3])
    /\ lsame32_addr = "&lsame_@previous"

NarrowIsQuarter == SubSeq(last.obs[1], 1, 2) = <<0, 16000>>
WideIsQuarter == last.obs[2] = <<0, 0, 0, 16336>>
SdotCalled == AfterF2C /\ Len(Calls(last.trace)) > 0

\* C9: with sdot resolved, the result is Plain when the single-precision
\* reading of the return is exactly 0.25 (also when both readings are),
\* LegacyF2C when only the double-precision reading is exactly 0.25, and
\* Unknown when neither reading is exactly 0.25.
C9_F2CClassification ==
    SdotCalled =>
        /\ NarrowIsQuarter => last.ret = "LBT_F2C_PLAIN"
        /\ (~NarrowIsQuarter /\ WideIsQuarter) => last.ret = "LBT_F2C_REQUIRED"
        /\ (~NarrowIsQuarter /\ ~WideIsQuarter) => last.ret = "LBT_F2C_UNKNOWN"

\* C10: interface detection run with a detected suffix always calls a probe
\* routine, and it is the routine of the stem whose resolution fixed the
\* suffix.
C10_SuffixInterfaceConsistent ==
    (AfterInterface /\ detected \notin {UNSET, NULL} /\ last.suffix = detected) =>
        LET r == suffix_scan(handle, 1, 1, <<>>)
            stem == IF r.symbol_idx = 1 THEN "isamax_" ELSE "dpotrf_"
        IN  /\ r.found
            /\ Len(Calls(last.trace)) = 1
            /\ Calls(last.trace)[1].arg = "&" \o stem \o detected
            /\ (r.symbol_idx = 1 <=> RanBlas)
            /\ (r.symbol_idx = 2 <=> RanLapack)

C10_Witness ==
    /\ AfterInterface
    /\ handle = {"isamax_64_", "dpotrf_"}
    /\ detected = "64_"
    /\ last.suffix = detected
    /\ RanBlas

====
